---- MODULE Spec2Model ----
(***************************************************************************)
(* Model of the WebSocket relay of src/websocket.js: the process-wide      *)
(* `connections` Map, the per-connection closure variable `userId`, the    *)
(* async 'message' and 'close' callbacks (split at their `await`s, which   *)
(* are the only points where another callback can run), and the store      *)
(* helpers of dbHelpers that the relay calls.                               *)
(*                                                                         *)
(* `log` is a history variable: it records, in execution order, every      *)
(* frame received, every Registry mutation, every store call and its       *)
(* resolution, and every frame written to a socket.  Each event carries    *)
(* the cause [conn, seq]: the connection and the receipt number of the     *)
(* inbound frame whose handler produced it (seq 0 is the 'close' handler). *)
(***************************************************************************)
EXTENDS Integers, Sequences, FiniteSets

VARIABLES connections, readyState, userId, recvCount, inflight,
          dbStatus, dbMessages, log

vars == <<connections, readyState, userId, recvCount, inflight,
          dbStatus, dbMessages, log>>

\* ---------------------------------------------------------------- bounds
\* frames received, over all connections
MaxFrames == 2

\* connections whose transport goes down
MaxCloses == 1

\* store calls that reject
MaxFailures == 1

\* ------------------------------------------------------------ the domain
Conns == {"c1", "c2"}

Null == "null"

Undefined == "undefined"

\* identities a client may declare; "" is the empty (falsy) identity
Identities == {"a", "b", ""}

\* rows of the users table: id -> username
Usernames == [a |-> "alice", b |-> "bob"]

UserIds == DOMAIN Usernames

Conversations == {"conv"}

\* rows of conversation_participants, in the order the query returns them
ParticipantRows == [conv |-> <<"a", "b">>]

\* --------------------------------------------------------- JS primitives
\* JavaScript truthiness of the closure variable `userId`
Truthy(v) == v # Null /\ v # Undefined /\ v # ""

RECURSIVE MapIndex(_, _, _)
MapIndex(m, k, i) ==
    IF i > Len(m) THEN 0
    ELSE IF m[i].id = k THEN i
    ELSE MapIndex(m, k, i + 1)

\* Map.prototype.get
MapGet(m, k) ==
    LET i == MapIndex(m, k, 1) IN IF i = 0 THEN Undefined ELSE m[i].ws

\* a set that leaves the handle of an existing key in place
MapSetKeepFirst(m, k, v) ==
    IF MapIndex(m, k, 1) = 0 THEN Append(m, [id |-> k, ws |-> v]) ELSE m

\* Map.prototype.set: an existing key keeps its position and takes the new
\* value; a new key is appended (insertion order)
MapSet(m, k, v) ==
    LET i == MapIndex(m, k, 1) IN
    IF i = 0 THEN Append(m, [id |-> k, ws |-> v])
    ELSE [m EXCEPT ![i] = [id |-> k, ws |-> v]]

\* Map.prototype.delete
MapDelete(m, k) == SelectSeq(m, LAMBDA e : e.id # k)

\* ------------------------------------------------------------ log events
Cause(c, n) == [conn |-> c, seq |-> n]

RecvEv(c, n, data) == [kind |-> "recv", cause |-> Cause(c, n), data |-> data]

SendEv(to, frame, cause) ==
    [kind |-> "send", to |-> to, frame |-> frame, cause |-> cause]

DropEv(to, frame, cause) ==
    [kind |-> "drop", to |-> to, frame |-> frame, cause |-> cause]

StoreEv(op, phase, arg, cause) ==
    [kind |-> "store", op |-> op, phase |-> phase, arg |-> arg, cause |-> cause]

RegEv(op, id, ws, cause) ==
    [kind |-> "registry", op |-> op, id |-> id, ws |-> ws, cause |-> cause]

\* the log of connection c grows by the events evs
Logged(c, evs) == log' = [log EXCEPT ![c] = log[c] \o evs]

\* ws.send without a readyState guard: the frame reaches the peer only when
\* the socket is OPEN; otherwise nothing is written
WsSend(rs, ws, frame, cause) ==
    IF rs[ws] = "OPEN" THEN <<SendEv(ws, frame, cause)>>
    ELSE <<DropEv(ws, frame, cause)>>

\* `if (x && x.readyState === WebSocket.OPEN) x.send(frame)`
GuardedSend(rs, ws, frame, cause) ==
    IF ws # Undefined /\ rs[ws] = "OPEN" THEN <<SendEv(ws, frame, cause)>>
    ELSE <<>>

RECURSIVE broadcastToAllFrom(_, _, _, _, _, _)
\* a broadcast that does not skip the entry of the subject itself
broadcastToAllFrom(m, rs, uid, status, cause, i) ==
    IF i > Len(m) THEN <<>>
    ELSE (IF rs[m[i].ws] = "OPEN"
          THEN <<SendEv(m[i].ws, [type |-> "user_status", userId |-> uid,
                                  status |-> status], cause)>>
          ELSE <<>>)
         \o broadcastToAllFrom(m, rs, uid, status, cause, i + 1)

RECURSIVE broadcastTwiceFrom(_, _, _, _, _, _)
\* a broadcast that writes the frame to each recipient twice
broadcastTwiceFrom(m, rs, uid, status, cause, i) ==
    IF i > Len(m) THEN <<>>
    ELSE (IF m[i].id # uid /\ rs[m[i].ws] = "OPEN"
          THEN LET f == [type |-> "user_status", userId |-> uid,
                         status |-> status]
               IN  <<SendEv(m[i].ws, f, cause), SendEv(m[i].ws, f, cause)>>
          ELSE <<>>)
         \o broadcastTwiceFrom(m, rs, uid, status, cause, i + 1)

RECURSIVE broadcastFrom(_, _, _, _, _, _)
\* connections.forEach of broadcastStatus, from entry i on
broadcastFrom(m, rs, uid, status, cause, i) ==
    IF i > Len(m) THEN <<>>
    ELSE (IF m[i].id # uid /\ rs[m[i].ws] = "OPEN"
          THEN <<SendEv(m[i].ws, [type |-> "user_status", userId |-> uid,
                                  status |-> status], cause)>>
          ELSE <<>>)
         \o broadcastFrom(m, rs, uid, status, cause, i + 1)

\* broadcastStatus(userId, status): connections.forEach in insertion order
broadcastStatus(m, rs, uid, status, cause) ==
    <<[kind |-> "broadcast", userId |-> uid, status |-> status, cause |-> cause]>>
    \o broadcastFrom(m, rs, uid, status, cause, 1)

\* -------------------------------------------------------- inbound frames
\* what a client puts on the wire: JSON text of an object, or other text
Wire(m) == [json |-> TRUE, value |-> m]

Garbage == [json |-> FALSE, text |-> "{oops"]

\* JSON.parse(data): the object, or a thrown SyntaxError
JSONParse(data) ==
    IF data.json THEN [threw |-> FALSE, value |-> data.value]
    ELSE [threw |-> TRUE, error |-> "SyntaxError"]

AuthMsgs == {[type |-> "auth", userId |-> u] : u \in Identities}

MessageMsgs ==
    {[type |-> "message", conversationId |-> cv, senderId |-> u,
      content |-> "hi", messageType |-> Undefined] :
        cv \in Conversations, u \in Identities}

TypingMsgs ==
    {[type |-> "typing", conversationId |-> cv, userId |-> u,
      isTyping |-> TRUE] : cv \in Conversations, u \in UserIds}

CallOfferMsgs ==
    {[type |-> "call_offer", targetUserId |-> t, offer |-> "sdp-offer",
      callerId |-> "a", callerName |-> "alice", conversationId |-> "conv",
      isVideo |-> TRUE] : t \in UserIds}

CallAnswerMsgs ==
    {[type |-> "call_answer", callerId |-> t, answer |-> "sdp-answer",
      answererId |-> "b"] : t \in UserIds}

IceCandidateMsgs ==
    {[type |-> "ice_candidate", targetUserId |-> t, candidate |-> "cand",
      fromUserId |-> "a"] : t \in UserIds}

CallEndMsgs ==
    {[type |-> "call_end", targetUserId |-> t, fromUserId |-> "a"] :
        t \in UserIds}

CallRejectMsgs ==
    {[type |-> "call_reject", callerId |-> t, rejecterId |-> "b"] :
        t \in UserIds}

UnknownMsgs == {[type |-> "ping"]}

KnownTypes == {"auth", "message", "typing", "call_offer", "call_answer",
               "ice_candidate", "call_end", "call_reject"}

\* the wire data of a set of frames
Wired(M) == {Wire(m) : m \in M}

ErrorFrame(msg) == [type |-> "error", error |-> msg]

TotalRecv == LET RECURSIVE Sum(_)
                 Sum(S) == IF S = {} THEN 0
                           ELSE LET c == CHOOSE x \in S : TRUE
                                IN recvCount[c] + Sum(S \ {c})
             IN Sum(Conns)

\* the positions of all log events
Positions == UNION {{<<c, i>> : i \in DOMAIN log[c]} : c \in Conns}

Event(p) == log[p[1]][p[2]]

\* store calls that have rejected so far
Failures ==
    Cardinality({p \in Positions :
                    Event(p).kind = "store" /\ Event(p).phase = "fail"})

\* a pending store call can resolve (ok) or reject
CanSettle(ok) == ok \/ Failures < MaxFailures

\* a 'message' event can be emitted on c: the socket is open
CanReceive(c) == readyState[c] = "OPEN" /\ TotalRecv < MaxFrames

Handler(c, n, m, pc, local) ==
    [conn |-> c, seq |-> n, msg |-> m, pc |-> pc, local |-> local]

\* ------------------------------------------------------------------ Init
\* the relay is set up with an empty Registry; each socket of Conns has been
\* accepted by wss.on('connection'): it is open and its closure is unbound
Init ==
    /\ connections = <<>>
    /\ readyState = [c \in Conns |-> "OPEN"]
    /\ userId = [c \in Conns |-> Null]
    /\ recvCount = [c \in Conns |-> 0]
    /\ inflight = {}
    /\ dbStatus = [u \in UserIds |-> "offline"]
    /\ dbMessages = <<>>
    /\ log = [c \in Conns |-> <<>>]

\* ------------------------------------------------------------ case 'auth'
\* a bind that closes the connection which held the identity before
AuthClosesPrevious(c, d) ==
    LET n == recvCount[c] + 1
        k == Cause(c, n)
        m == JSONParse(d).value
        prev == MapGet(connections, m.userId)
    IN  /\ CanReceive(c)
        /\ ~JSONParse(d).threw
        /\ m.type = "auth"
        /\ recvCount' = [recvCount EXCEPT ![c] = n]
        /\ userId' = [userId EXCEPT ![c] = m.userId]
        /\ connections' = MapSet(connections, m.userId, c)
        /\ readyState' = IF prev \notin {Undefined, c}
                         THEN [readyState EXCEPT ![prev] = "CLOSING"]
                         ELSE readyState
        /\ inflight' = inflight \cup {Handler(c, n, m, "updateUserStatus", <<>>)}
        /\ Logged(c,
               <<RecvEv(c, n, d),
                 RegEv("set", m.userId, c, k),
                 StoreEv("updateUserStatus", "call", <<m.userId, "online">>, k)>>)
        /\ UNCHANGED <<dbStatus, dbMessages>>

\* first segment, up to `await dbHelpers.updateUserStatus(userId, 'online')`
Auth(c, d) ==
    LET n == recvCount[c] + 1
        k == Cause(c, n)
        m == JSONParse(d).value
    IN  /\ CanReceive(c)
        /\ ~JSONParse(d).threw
        /\ m.type = "auth"
        /\ recvCount' = [recvCount EXCEPT ![c] = n]
        /\ userId' = [userId EXCEPT ![c] = m.userId]
        /\ connections' = MapSet(connections, m.userId, c)
        /\ inflight' = inflight \cup {Handler(c, n, m, "updateUserStatus", <<>>)}
        /\ Logged(c,
               <<RecvEv(c, n, d),
                           RegEv("set", m.userId, c, k),
                           StoreEv("updateUserStatus", "call",
                                   <<m.userId, "online">>, k)>>)
        /\ UNCHANGED <<readyState, dbStatus, dbMessages>>

\* UPDATE users SET status = ? WHERE id = ?
UpdateUserStatus(db, uid, status) ==
    IF uid \in DOMAIN db THEN [db EXCEPT ![uid] = status] ELSE db

\* the store call settles: broadcastStatus + auth_success, or the catch block
AuthResume(h, ok) ==
    LET c == h.conn
        k == Cause(c, h.seq)
    IN  /\ h \in inflight
        /\ CanSettle(ok)
        /\ h.msg.type = "auth"
        /\ h.pc = "updateUserStatus"
        /\ inflight' = inflight \ {h}
        /\ IF ok
           THEN /\ dbStatus' = UpdateUserStatus(dbStatus, h.msg.userId, "online")
                /\ Logged(h.conn,
                       <<StoreEv("updateUserStatus", "ok",
                                  <<h.msg.userId, "online">>, k)>>
                     \o broadcastStatus(connections, readyState, userId[c],
                                        "online", k)
                     \o WsSend(readyState, c, [type |-> "auth_success"], k))
           ELSE /\ dbStatus' = dbStatus
                /\ Logged(h.conn,
                       <<StoreEv("updateUserStatus", "fail",
                                  <<h.msg.userId, "online">>, k)>>
                     \o WsSend(readyState, c, ErrorFrame("StoreError"), k))
        /\ UNCHANGED <<connections, readyState, userId, recvCount, dbMessages>>

\* --------------------------------------------------------- case 'message'
\* first segment, up to `await dbHelpers.createMessage(...)`
Message(c, d) ==
    LET n == recvCount[c] + 1
        k == Cause(c, n)
        m == JSONParse(d).value
    IN  /\ CanReceive(c)
        /\ ~JSONParse(d).threw
        /\ m.type = "message"
        /\ recvCount' = [recvCount EXCEPT ![c] = n]
        /\ inflight' = inflight \cup {Handler(c, n, m, "createMessage", <<>>)}
        /\ Logged(c,
               <<RecvEv(c, n, d),
                           StoreEv("createMessage", "call", m.content, k)>>)
        /\ UNCHANGED <<connections, readyState, userId, dbStatus, dbMessages>>

\* dbHelpers.createMessage: the record the INSERT stores and resolves with;
\* the id is assigned by the server, the type defaults to 'text'
createMessage(db, m) ==
    [id |-> Len(db) + 1, conversationId |-> m.conversationId,
     senderId |-> m.senderId, content |-> m.content,
     type |-> IF m.messageType = Undefined THEN "text" ELSE m.messageType]

\* a catch block that logs the error and reports nothing to the client
CatchSilent(h, op, arg, err) ==
    /\ inflight' = inflight \ {h}
    /\ Logged(h.conn, <<StoreEv(op, "fail", arg, Cause(h.conn, h.seq))>>)

\* the catch block of the 'message' callback
Catch(h, op, arg, err) ==
    LET k == Cause(h.conn, h.seq)
    IN  /\ inflight' = inflight \ {h}
        /\ Logged(h.conn,
               <<StoreEv(op, "fail", arg, k)>>
                      \o WsSend(readyState, h.conn, ErrorFrame(err), k))

\* a handler that starts the participants query whether or not the INSERT
\* succeeded
MessageCreatedUnchecked(h, ok) ==
    LET k == Cause(h.conn, h.seq)
        rec == createMessage(dbMessages, h.msg)
    IN  /\ h \in inflight
        /\ CanSettle(ok)
        /\ h.msg.type = "message"
        /\ h.pc = "createMessage"
        /\ dbMessages' = IF ok THEN Append(dbMessages, rec) ELSE dbMessages
        /\ inflight' = (inflight \ {h}) \cup
              {[h EXCEPT !.pc = "getConversationParticipants", !.local = <<rec>>]}
        /\ Logged(h.conn,
               <<StoreEv("createMessage", IF ok THEN "ok" ELSE "fail",
                         h.msg.content, k),
                 StoreEv("getConversationParticipants", "call",
                         h.msg.conversationId, k)>>)
        /\ UNCHANGED <<connections, readyState, userId, recvCount, dbStatus>>

\* createMessage settles; on success the participants query is issued
MessageCreated(h, ok) ==
    LET k == Cause(h.conn, h.seq)
        rec == createMessage(dbMessages, h.msg)
    IN  /\ h \in inflight
        /\ CanSettle(ok)
        /\ h.msg.type = "message"
        /\ h.pc = "createMessage"
        /\ IF ok
           THEN /\ dbMessages' = Append(dbMessages, rec)
                /\ inflight' = (inflight \ {h}) \cup
                      {[h EXCEPT !.pc = "getConversationParticipants",
                                 !.local = <<rec>>]}
                /\ Logged(h.conn,
                       <<StoreEv("createMessage", "ok", h.msg.content, k),
                                   StoreEv("getConversationParticipants", "call",
                                           h.msg.conversationId, k)>>)
           ELSE /\ dbMessages' = dbMessages
                /\ Catch(h, "createMessage", h.msg.content, "StoreError")
        /\ UNCHANGED <<connections, readyState, userId, recvCount, dbStatus>>

\* dbHelpers.getConversationParticipants: the user_id column of the rows
getConversationParticipants(cv) ==
    IF cv \in DOMAIN ParticipantRows THEN ParticipantRows[cv] ELSE <<>>

\* the participants query settles; on success getUserById is issued
MessageParticipants(h, ok) ==
    LET k == Cause(h.conn, h.seq)
    IN  /\ h \in inflight
        /\ CanSettle(ok)
        /\ h.msg.type = "message"
        /\ h.pc = "getConversationParticipants"
        /\ IF ok
           THEN /\ inflight' = (inflight \ {h}) \cup
                      {[h EXCEPT !.pc = "getUserById",
                                 !.local = <<h.local[1],
                                  getConversationParticipants(h.msg.conversationId)>>]}
                /\ Logged(h.conn,
                       <<StoreEv("getConversationParticipants", "ok",
                                           h.msg.conversationId, k),
                                   StoreEv("getUserById", "call", h.msg.senderId, k)>>)
           ELSE Catch(h, "getConversationParticipants", h.msg.conversationId,
                      "StoreError")
        /\ UNCHANGED <<connections, readyState, userId, recvCount, dbStatus,
                       dbMessages>>

\* dbHelpers.getUserById: the row, or undefined when no user has that id
getUserById(id) ==
    IF id \in UserIds THEN [found |-> TRUE, id |-> id, username |-> Usernames[id]]
    ELSE [found |-> FALSE]

RECURSIVE fanOutOthersFrom(_, _, _, _, _, _, _)
\* a fan-out that leaves out the sender of the message, as the typing
\* fan-out does
fanOutOthersFrom(m, rs, parts, rec, sender, cause, i) ==
    IF i > Len(parts) THEN [sent |-> <<>>, threw |-> FALSE]
    ELSE LET ws == MapGet(m, parts[i])
         IN  IF parts[i] # rec.senderId /\ ws # Undefined /\ rs[ws] = "OPEN"
             THEN IF ~sender.found
                  THEN [sent |-> <<>>, threw |-> TRUE]
                  ELSE LET rest == fanOutOthersFrom(m, rs, parts, rec, sender,
                                                    cause, i + 1)
                           f == [type |-> "new_message",
                                 message |-> [id |-> rec.id,
                                     conversationId |-> rec.conversationId,
                                     senderId |-> rec.senderId,
                                     content |-> rec.content,
                                     type |-> rec.type,
                                     sender_username |-> sender.username]]
                       IN  [sent |-> <<SendEv(ws, f, cause)>> \o rest.sent,
                            threw |-> rest.threw]
             ELSE fanOutOthersFrom(m, rs, parts, rec, sender, cause, i + 1)

RECURSIVE fanOutAbortingFrom(_, _, _, _, _, _, _)
\* a fan-out that writes without testing readyState and lets the failure of
\* a write to a socket that is not open end the loop and reach the catch
fanOutAbortingFrom(m, rs, parts, rec, sender, cause, i) ==
    IF i > Len(parts) THEN [sent |-> <<>>, threw |-> FALSE]
    ELSE LET ws == MapGet(m, parts[i])
         IN  IF ws = Undefined
             THEN fanOutAbortingFrom(m, rs, parts, rec, sender, cause, i + 1)
             ELSE IF ~sender.found \/ rs[ws] # "OPEN"
             THEN [sent |-> <<>>, threw |-> TRUE]
             ELSE LET rest == fanOutAbortingFrom(m, rs, parts, rec, sender,
                                                 cause, i + 1)
                      f == [type |-> "new_message",
                            message |-> [id |-> rec.id,
                                conversationId |-> rec.conversationId,
                                senderId |-> rec.senderId,
                                content |-> rec.content,
                                type |-> rec.type,
                                sender_username |-> sender.username]]
                  IN  [sent |-> <<SendEv(ws, f, cause)>> \o rest.sent,
                       threw |-> rest.threw]

RECURSIVE fanOutFrom(_, _, _, _, _, _, _)
\* participants.forEach(...) of case 'message', from index i on.  The frame
\* is built (and sender.username read) only for a participant whose socket
\* is registered and open; reading it from an undefined sender throws, which
\* ends the loop: the result is the sends made and whether it threw
fanOutFrom(m, rs, parts, rec, sender, cause, i) ==
    IF i > Len(parts) THEN [sent |-> <<>>, threw |-> FALSE]
    ELSE LET ws == MapGet(m, parts[i])
         IN  IF ws # Undefined /\ rs[ws] = "OPEN"
             THEN IF ~sender.found
                  THEN [sent |-> <<>>, threw |-> TRUE]
                  ELSE LET rest == fanOutFrom(m, rs, parts, rec, sender, cause, i + 1)
                           f == [type |-> "new_message",
                                 message |-> [id |-> rec.id,
                                     conversationId |-> rec.conversationId,
                                     senderId |-> rec.senderId,
                                     content |-> rec.content,
                                     type |-> rec.type,
                                     sender_username |-> sender.username]]
                       IN  [sent |-> <<SendEv(ws, f, cause)>> \o rest.sent,
                            threw |-> rest.threw]
             ELSE fanOutFrom(m, rs, parts, rec, sender, cause, i + 1)

\* getUserById settles; on success the fan-out loop runs
MessageFanOut(h, ok) ==
    LET k == Cause(h.conn, h.seq)
        newMessage == h.local[1]
        participants == h.local[2]
        sender == getUserById(h.msg.senderId)
        r == fanOutFrom(connections, readyState, participants, newMessage,
                        sender, k, 1)
    IN  /\ h \in inflight
        /\ CanSettle(ok)
        /\ h.msg.type = "message"
        /\ h.pc = "getUserById"
        /\ IF ok
           THEN /\ inflight' = inflight \ {h}
                /\ Logged(h.conn,
                       <<StoreEv("getUserById", "ok", h.msg.senderId, k)>>
                              \o r.sent
                              \o (IF r.threw
                                  THEN WsSend(readyState, h.conn,
                                              ErrorFrame("TypeError"), k)
                                  ELSE <<>>))
           ELSE Catch(h, "getUserById", h.msg.senderId, "StoreError")
        /\ UNCHANGED <<connections, readyState, userId, recvCount, dbStatus,
                       dbMessages>>

\* ---------------------------------------------------------- case 'typing'
\* first segment, up to `await dbHelpers.getConversationParticipants(...)`
Typing(c, d) ==
    LET n == recvCount[c] + 1
        k == Cause(c, n)
        m == JSONParse(d).value
    IN  /\ CanReceive(c)
        /\ ~JSONParse(d).threw
        /\ m.type = "typing"
        /\ recvCount' = [recvCount EXCEPT ![c] = n]
        /\ inflight' = inflight \cup
              {Handler(c, n, m, "getConversationParticipants", <<>>)}
        /\ Logged(c,
               <<RecvEv(c, n, d),
                           StoreEv("getConversationParticipants", "call",
                                   m.conversationId, k)>>)
        /\ UNCHANGED <<connections, readyState, userId, dbStatus, dbMessages>>

RECURSIVE typingTwiceFrom(_, _, _, _, _, _)
\* a typing fan-out that writes every frame a second time
typingTwiceFrom(m, rs, parts, msg, cause, i) ==
    IF i > Len(parts) THEN <<>>
    ELSE LET out == IF parts[i] # msg.userId
                    THEN GuardedSend(rs, MapGet(m, parts[i]),
                                     [type |-> "typing",
                                      conversationId |-> msg.conversationId,
                                      userId |-> msg.userId,
                                      isTyping |-> msg.isTyping], cause)
                    ELSE <<>>
         IN  out \o out \o typingTwiceFrom(m, rs, parts, msg, cause, i + 1)

RECURSIVE typingFrom(_, _, _, _, _, _)
\* typingParticipants.forEach(...) from index i on
typingFrom(m, rs, parts, msg, cause, i) ==
    IF i > Len(parts) THEN <<>>
    ELSE (IF parts[i] # msg.userId
          THEN GuardedSend(rs, MapGet(m, parts[i]),
                           [type |-> "typing",
                            conversationId |-> msg.conversationId,
                            userId |-> msg.userId,
                            isTyping |-> msg.isTyping], cause)
          ELSE <<>>)
         \o typingFrom(m, rs, parts, msg, cause, i + 1)

\* the participants query settles; on success the typing fan-out runs
TypingResume(h, ok) ==
    LET k == Cause(h.conn, h.seq)
    IN  /\ h \in inflight
        /\ CanSettle(ok)
        /\ h.msg.type = "typing"
        /\ IF ok
           THEN /\ inflight' = inflight \ {h}
                /\ Logged(h.conn,
                       <<StoreEv("getConversationParticipants", "ok",
                                  h.msg.conversationId, k)>>
                     \o typingFrom(connections, readyState,
                                   getConversationParticipants(h.msg.conversationId),
                                   h.msg, k, 1))
           ELSE Catch(h, "getConversationParticipants", h.msg.conversationId,
                      "StoreError")
        /\ UNCHANGED <<connections, readyState, userId, recvCount, dbStatus,
                       dbMessages>>

\* ------------------------------------------------------- WebRTC signaling
\* a handler with no await: it runs to completion within the 'message' event
Sync(c, d, out) ==
    LET n == recvCount[c] + 1
    IN  /\ recvCount' = [recvCount EXCEPT ![c] = n]
        /\ Logged(c,
               <<RecvEv(c, n, d)>> \o out)
        /\ UNCHANGED <<connections, readyState, userId, inflight, dbStatus,
                       dbMessages>>

\* a call_offer that drops the offer when the target is not reachable
CallOfferSilent(c, d) ==
    LET k == Cause(c, recvCount[c] + 1)
        m == JSONParse(d).value
    IN  /\ CanReceive(c)
        /\ ~JSONParse(d).threw
        /\ m.type = "call_offer"
        /\ Sync(c, d, GuardedSend(readyState, MapGet(connections, m.targetUserId),
                                  [type |-> "call_offer", offer |-> m.offer,
                                   callerId |-> m.callerId,
                                   callerName |-> m.callerName,
                                   conversationId |-> m.conversationId,
                                   isVideo |-> m.isVideo], k))

\* a call_offer that tests only whether the target has a Registry entry and
\* writes to its handle whatever state the socket is in
CallOfferUnguarded(c, d) ==
    LET k == Cause(c, recvCount[c] + 1)
        m == JSONParse(d).value
        targetWs == MapGet(connections, m.targetUserId)
    IN  /\ CanReceive(c)
        /\ ~JSONParse(d).threw
        /\ m.type = "call_offer"
        /\ Sync(c, d,
                IF targetWs # Undefined
                THEN WsSend(readyState, targetWs,
                            [type |-> "call_offer", offer |-> m.offer,
                             callerId |-> m.callerId,
                             callerName |-> m.callerName,
                             conversationId |-> m.conversationId,
                             isVideo |-> m.isVideo], k)
                ELSE WsSend(readyState, c,
                            [type |-> "call_error", error |-> "User is offline"],
                            k))

\* case 'call_offer'
CallOffer(c, d) ==
    LET k == Cause(c, recvCount[c] + 1)
        m == JSONParse(d).value
        targetWs == MapGet(connections, m.targetUserId)
    IN  /\ CanReceive(c)
        /\ ~JSONParse(d).threw
        /\ m.type = "call_offer"
        /\ Sync(c, d,
                IF targetWs # Undefined /\ readyState[targetWs] = "OPEN"
                THEN <<SendEv(targetWs,
                              [type |-> "call_offer", offer |-> m.offer,
                               callerId |-> m.callerId,
                               callerName |-> m.callerName,
                               conversationId |-> m.conversationId,
                               isVideo |-> m.isVideo], k)>>
                ELSE WsSend(readyState, c,
                            [type |-> "call_error", error |-> "User is offline"],
                            k))

\* a call_answer that reports an unreachable caller, as call_offer does for
\* its target
CallAnswerReporting(c, d) ==
    LET k == Cause(c, recvCount[c] + 1)
        m == JSONParse(d).value
        callerWs == MapGet(connections, m.callerId)
    IN  /\ CanReceive(c)
        /\ ~JSONParse(d).threw
        /\ m.type = "call_answer"
        /\ Sync(c, d,
                IF callerWs # Undefined /\ readyState[callerWs] = "OPEN"
                THEN <<SendEv(callerWs,
                              [type |-> "call_answer", answer |-> m.answer,
                               answererId |-> m.answererId], k)>>
                ELSE WsSend(readyState, c,
                            [type |-> "call_error", error |-> "User is offline"],
                            k))

\* case 'call_answer'
CallAnswer(c, d) ==
    LET k == Cause(c, recvCount[c] + 1)
        m == JSONParse(d).value
    IN  /\ CanReceive(c)
        /\ ~JSONParse(d).threw
        /\ m.type = "call_answer"
        /\ Sync(c, d, GuardedSend(readyState, MapGet(connections, m.callerId),
                                  [type |-> "call_answer", answer |-> m.answer,
                                   answererId |-> m.answererId], k))

\* an ice_candidate that is forwarded under the identity the connection is
\* bound to, whatever the frame declares
IceCandidateAsBound(c, d) ==
    LET k == Cause(c, recvCount[c] + 1)
        m == JSONParse(d).value
    IN  /\ CanReceive(c)
        /\ ~JSONParse(d).threw
        /\ m.type = "ice_candidate"
        /\ Sync(c, d, GuardedSend(readyState, MapGet(connections, m.targetUserId),
                                  [type |-> "ice_candidate",
                                   candidate |-> m.candidate,
                                   fromUserId |-> userId[c]], k))

\* case 'ice_candidate'
IceCandidate(c, d) ==
    LET k == Cause(c, recvCount[c] + 1)
        m == JSONParse(d).value
    IN  /\ CanReceive(c)
        /\ ~JSONParse(d).threw
        /\ m.type = "ice_candidate"
        /\ Sync(c, d, GuardedSend(readyState, MapGet(connections, m.targetUserId),
                                  [type |-> "ice_candidate",
                                   candidate |-> m.candidate,
                                   fromUserId |-> m.fromUserId], k))

\* a call_end that is forwarded under its inbound type
CallEndUnmapped(c, d) ==
    LET k == Cause(c, recvCount[c] + 1)
        m == JSONParse(d).value
    IN  /\ CanReceive(c)
        /\ ~JSONParse(d).threw
        /\ m.type = "call_end"
        /\ Sync(c, d, GuardedSend(readyState, MapGet(connections, m.targetUserId),
                                  [type |-> "call_end",
                                   fromUserId |-> m.fromUserId], k))

\* case 'call_end'
CallEnd(c, d) ==
    LET k == Cause(c, recvCount[c] + 1)
        m == JSONParse(d).value
    IN  /\ CanReceive(c)
        /\ ~JSONParse(d).threw
        /\ m.type = "call_end"
        /\ Sync(c, d, GuardedSend(readyState, MapGet(connections, m.targetUserId),
                                  [type |-> "call_ended",
                                   fromUserId |-> m.fromUserId], k))

\* a call_reject that also drops the Registry entry of the rejecting user
CallRejectUnbinds(c, d) ==
    LET n == recvCount[c] + 1
        k == Cause(c, n)
        m == JSONParse(d).value
    IN  /\ CanReceive(c)
        /\ ~JSONParse(d).threw
        /\ m.type = "call_reject"
        /\ recvCount' = [recvCount EXCEPT ![c] = n]
        /\ connections' = MapDelete(connections, m.rejecterId)
        /\ Logged(c, <<RecvEv(c, n, d)>>
                      \o GuardedSend(readyState, MapGet(connections, m.callerId),
                                     [type |-> "call_rejected",
                                      rejecterId |-> m.rejecterId], k))
        /\ UNCHANGED <<readyState, userId, inflight, dbStatus, dbMessages>>

\* case 'call_reject'
CallReject(c, d) ==
    LET k == Cause(c, recvCount[c] + 1)
        m == JSONParse(d).value
    IN  /\ CanReceive(c)
        /\ ~JSONParse(d).threw
        /\ m.type = "call_reject"
        /\ Sync(c, d, GuardedSend(readyState, MapGet(connections, m.callerId),
                                  [type |-> "call_rejected",
                                   rejecterId |-> m.rejecterId], k))

\* --------------------------------------------- no matching case, bad JSON
\* a switch whose default case rejects the frame with an error frame
UnknownTypeReported(c, d) ==
    /\ CanReceive(c)
    /\ ~JSONParse(d).threw
    /\ JSONParse(d).value.type \notin KnownTypes
    /\ Sync(c, d, WsSend(readyState, c, ErrorFrame("Unknown message type"),
                         Cause(c, recvCount[c] + 1)))

\* the switch has no default: a frame of any other type does nothing
UnknownType(c, d) ==
    /\ CanReceive(c)
    /\ ~JSONParse(d).threw
    /\ JSONParse(d).value.type \notin KnownTypes
    /\ Sync(c, d, <<>>)

\* a catch block that also drops the Registry entry of the connection
MalformedUnbinds(c, d) ==
    /\ CanReceive(c)
    /\ JSONParse(d).threw
    /\ recvCount' = [recvCount EXCEPT ![c] = recvCount[c] + 1]
    /\ connections' = MapDelete(connections, userId[c])
    /\ Logged(c, <<RecvEv(c, recvCount[c] + 1, d)>>
                  \o WsSend(readyState, c, ErrorFrame(JSONParse(d).error),
                            Cause(c, recvCount[c] + 1)))
    /\ UNCHANGED <<readyState, userId, inflight, dbStatus, dbMessages>>

\* a catch block that terminates the connection after the error frame
MalformedCloses(c, d) ==
    /\ CanReceive(c)
    /\ JSONParse(d).threw
    /\ recvCount' = [recvCount EXCEPT ![c] = recvCount[c] + 1]
    /\ readyState' = [readyState EXCEPT ![c] = "CLOSING"]
    /\ Logged(c, <<RecvEv(c, recvCount[c] + 1, d)>>
                  \o WsSend(readyState, c, ErrorFrame(JSONParse(d).error),
                            Cause(c, recvCount[c] + 1)))
    /\ UNCHANGED <<connections, userId, inflight, dbStatus, dbMessages>>

\* JSON.parse throws: the catch block replies with an error frame
Malformed(c, d) ==
    /\ CanReceive(c)
    /\ JSONParse(d).threw
    /\ Sync(c, d, WsSend(readyState, c, ErrorFrame(JSONParse(d).error),
                         Cause(c, recvCount[c] + 1)))

\* ------------------------------------------------------- transport, close
\* the transport fails or the peer starts the closing handshake: readyState
\* leaves OPEN before the 'close' event is emitted
TransportDown(c) ==
    /\ readyState[c] = "OPEN"
    /\ Cardinality({x \in Conns : readyState[x] # "OPEN"}) < MaxCloses
    /\ readyState' = [readyState EXCEPT ![c] = "CLOSING"]
    /\ UNCHANGED <<connections, userId, recvCount, inflight, dbStatus,
                   dbMessages, log>>

\* Unbound -> Bound -> Closed: a connection is bound once an auth frame has
\* set its closure's userId, until it is closed
Bound(c) == userId[c] # Null /\ readyState[c] # "CLOSED"

\* the 'close' event; boundThen notes which other connections are bound now,
\* under another identity than the closing one
CloseEv(c) ==
    [kind |-> "close", cause |-> Cause(c, 0),
     boundThen |-> {x \in Conns \ {c} : Bound(x) /\ userId[x] # userId[c]}]

\* ws.on('close'), first segment
Close(c) ==
    LET k == Cause(c, 0)
    IN  /\ readyState[c] = "CLOSING"
        /\ readyState' = [readyState EXCEPT ![c] = "CLOSED"]
        /\ IF Truthy(userId[c])
           THEN /\ connections' = MapDelete(connections, userId[c])
                /\ inflight' = inflight \cup
                      {Handler(c, 0, [type |-> "close"], "updateUserStatus", <<>>)}
                /\ Logged(c,
                       <<CloseEv(c),
                                   RegEv("delete", userId[c], c, k),
                                   StoreEv("updateUserStatus", "call",
                                           <<userId[c], "offline">>, k)>>)
           ELSE /\ Logged(c,
                       <<CloseEv(c)>>)
                /\ UNCHANGED <<connections, inflight>>
        /\ UNCHANGED <<userId, recvCount, dbStatus, dbMessages>>

\* ws.on('close') after its await: broadcastStatus(userId, 'offline'); a
\* rejected store call leaves the async callback with nothing further done
CloseResume(h, ok) ==
    LET c == h.conn
        k == Cause(c, 0)
    IN  /\ h \in inflight
        /\ CanSettle(ok)
        /\ h.msg.type = "close"
        /\ inflight' = inflight \ {h}
        /\ IF ok
           THEN /\ dbStatus' = UpdateUserStatus(dbStatus, userId[c], "offline")
                /\ Logged(h.conn,
                       <<StoreEv("updateUserStatus", "ok",
                                  <<userId[c], "offline">>, k)>>
                     \o broadcastStatus(connections, readyState, userId[c],
                                        "offline", k))
           ELSE /\ dbStatus' = dbStatus
                /\ Logged(h.conn,
                       <<StoreEv("updateUserStatus", "fail",
                                  <<userId[c], "offline">>, k)>>)
        /\ UNCHANGED <<connections, readyState, userId, recvCount, dbMessages>>

\* ------------------------------------------------------------ behaviours
\* the 'close' and 'error' side of a socket
Transport ==
    \E c \in Conns : TransportDown(c) \/ Close(c)

\* the auth frames a client can send on c, declaring an identity of Ids
Bind(c, Ids) ==
    \E d \in Wired({m \in AuthMsgs : m.userId \in Ids}) : Auth(c, d)

\* the other frames a client can send on c, by the case that handles them
Chat(c) == \E d \in Wired(MessageMsgs) : Message(c, d)

Presence(c) == \E d \in Wired(TypingMsgs) : Typing(c, d)

Signal(c) ==
    \/ \E d \in Wired(CallOfferMsgs) : CallOffer(c, d)
    \/ \E d \in Wired(CallAnswerMsgs) : CallAnswer(c, d)
    \/ \E d \in Wired(IceCandidateMsgs) : IceCandidate(c, d)
    \/ \E d \in Wired(CallEndMsgs) : CallEnd(c, d)
    \/ \E d \in Wired(CallRejectMsgs) : CallReject(c, d)

Other(c) ==
    \/ \E d \in Wired(UnknownMsgs) : UnknownType(c, d)
    \/ Malformed(c, Garbage)

\* a pending store call settles and the callback that awaits it goes on
AuthSettles == \E h \in inflight, ok \in BOOLEAN : AuthResume(h, ok)

CloseSettles == \E h \in inflight, ok \in BOOLEAN : CloseResume(h, ok)

CreateSettles == \E h \in inflight, ok \in BOOLEAN : MessageCreated(h, ok)

ParticipantsSettle == \E h \in inflight, ok \in BOOLEAN : MessageParticipants(h, ok)

SenderSettles == \E h \in inflight, ok \in BOOLEAN : MessageFanOut(h, ok)

TypingSettles == \E h \in inflight, ok \in BOOLEAN : TypingResume(h, ok)

\* every frame kind on every connection
Next ==
    \/ Transport
    \/ AuthSettles
    \/ CloseSettles
    \/ CreateSettles
    \/ ParticipantsSettle
    \/ SenderSettles
    \/ TypingSettles
    \/ \E c \in Conns :
           Bind(c, Identities) \/ Chat(c) \/ Presence(c) \/ Signal(c) \/ Other(c)

Spec == Init /\ [][Next]_vars

\* binds and unbinds only: auth frames, with any identity, and closes
NextRegistry ==
    \/ Transport
    \/ AuthSettles
    \/ CloseSettles
    \/ \E c \in Conns : Bind(c, Identities)

SpecRegistry == Init /\ [][NextRegistry]_vars

\* binds and unbinds of the identities of users
NextPresence ==
    \/ Transport
    \/ AuthSettles
    \/ CloseSettles
    \/ \E c \in Conns : Bind(c, UserIds)

SpecPresence == Init /\ [][NextPresence]_vars

\* binds, closes and chat messages
NextMessage ==
    \/ Transport
    \/ AuthSettles
    \/ CloseSettles
    \/ CreateSettles
    \/ ParticipantsSettle
    \/ SenderSettles
    \/ \E c \in Conns : Bind(c, Identities) \/ Chat(c)

\* a state the relay is in once c1 has authenticated as "a" and c2 as "b" and
\* both handlers have finished; the logs start empty from here
InitBound ==
    /\ connections = <<[id |-> "a", ws |-> "c1"], [id |-> "b", ws |-> "c2"]>>
    /\ readyState = [c \in Conns |-> "OPEN"]
    /\ userId = [c \in Conns |-> IF c = "c1" THEN "a" ELSE "b"]
    /\ recvCount = [c \in Conns |-> 0]
    /\ inflight = {}
    /\ dbStatus = [u \in UserIds |-> "online"]
    /\ dbMessages = <<>>
    /\ log = [c \in Conns |-> <<>>]

SpecMessage == InitBound /\ [][NextMessage]_vars

\* binds of users, sockets going down, signaling frames and unparseable data
NextSignal ==
    \/ \E c \in Conns : TransportDown(c)
    \/ AuthSettles
    \/ \E c \in Conns : Bind(c, UserIds) \/ Signal(c) \/ Malformed(c, Garbage)

SpecSignal == Init /\ [][NextSignal]_vars

\* binds under any identity and closes, of connections that are bound
SpecBroadcast == InitBound /\ [][NextRegistry]_vars

\* every frame kind but auth, on connections that are bound
NextFrames ==
    \/ \E c \in Conns : TransportDown(c)
    \/ CreateSettles
    \/ ParticipantsSettle
    \/ SenderSettles
    \/ TypingSettles
    \/ \E c \in Conns : Chat(c) \/ Presence(c) \/ Signal(c) \/ Other(c)

SpecFrames == InitBound /\ [][NextFrames]_vars

\* the frames that are handled without a store call, on bound connections
NextCalls ==
    \/ \E c \in Conns : TransportDown(c)
    \/ \E c \in Conns : Signal(c) \/ Other(c)

SpecCalls == InitBound /\ [][NextCalls]_vars

\* every frame kind that has a case, with binds of users, on connections
\* that are bound
NextRelay ==
    \/ Transport
    \/ AuthSettles
    \/ CloseSettles
    \/ CreateSettles
    \/ ParticipantsSettle
    \/ SenderSettles
    \/ TypingSettles
    \/ \E c \in Conns :
           Bind(c, UserIds) \/ Chat(c) \/ Presence(c) \/ Signal(c)

SpecRelay == InitBound /\ [][NextRelay]_vars

\* binds, closes and typing frames
NextTyping ==
    \/ Transport
    \/ AuthSettles
    \/ CloseSettles
    \/ TypingSettles
    \/ \E c \in Conns : Bind(c, Identities) \/ Presence(c)

SpecTyping == InitBound /\ [][NextTyping]_vars

\* the store call that the handler of frame n of connection c (n = 0: its
\* 'close' handler) awaits settles, and the handler goes on
Settles(c, n) ==
    \E h \in inflight, ok \in BOOLEAN :
        /\ h.conn = c
        /\ h.seq = n
        /\ \/ AuthResume(h, ok)
           \/ CloseResume(h, ok)
           \/ TypingResume(h, ok)

\* binds, typing frames and closes
NextFair ==
    \/ Transport
    \/ AuthSettles
    \/ CloseSettles
    \/ TypingSettles
    \/ \E c \in Conns : Bind(c, Identities) \/ Presence(c)

\* every store call eventually resolves or rejects, and the 'close' event of
\* a socket that went down is eventually emitted
Fairness ==
    /\ \A c \in Conns : WF_vars(Close(c))
    /\ \A c \in Conns : \A n \in 0..MaxFrames : WF_vars(Settles(c, n))

SpecFair == Init /\ [][NextFair]_vars /\ Fairness

\* ========================================================== properties
\* the events the current step appends to the log of connection c
NewEvents(c) == SubSeq(log'[c], Len(log[c]) + 1, Len(log'[c]))

\* the positions of a sequence whose event satisfies a test
Where(s, Test(_)) == {i \in DOMAIN s : Test(s[i])}

\* Registry lookup
lookup(x) == MapGet(connections, x)

\* the step emits the 'close' event of c
CloseStep(c) == readyState[c] = "CLOSING" /\ readyState'[c] = "CLOSED"

\* the step settles the store call of the 'close' handler of c
CloseSettled(c) ==
    \E h \in inflight : h.conn = c /\ h.msg.type = "close" /\ h \notin inflight'

IsStatus(e, x, uid, status) ==
    /\ e.kind = "send"
    /\ e.to = x
    /\ e.frame.type = "user_status"
    /\ e.frame.userId = uid
    /\ e.frame.status = status

\* C1: a close of connection c removes an entry only if the entry maps to c:
\* an identity that another connection has re-bound keeps that connection
C1_StaleCloseKeepsNewerBind ==
    [][\A c \in Conns, x \in Identities :
          (CloseStep(c) /\ lookup(x) \notin {c, Undefined})
              => MapGet(connections', x) = lookup(x)]_vars

\* the teardown steps the 'close' handler of c has run
Unbinds(c) ==
    Where(log[c], LAMBDA e : e.kind = "registry" /\ e.op = "delete")

MarksOffline(c) ==
    Where(log[c], LAMBDA e : e.kind = "store" /\ e.op = "updateUserStatus"
                             /\ e.phase = "call" /\ e.arg[2] = "offline")

BroadcastsOffline(c) ==
    Where(log[c], LAMBDA e : e.kind = "broadcast" /\ e.status = "offline")

EverBound(c) ==
    Where(log[c], LAMBDA e : e.kind = "registry" /\ e.op = "set") # {}

TornDown(c) ==
    /\ readyState[c] = "CLOSED"
    /\ \A h \in inflight : h.conn # c

CloseSettledOk(c) ==
    Where(log[c], LAMBDA e : e.kind = "store" /\ e.op = "updateUserStatus"
                             /\ e.phase = "ok" /\ e.arg[2] = "offline") # {}

\* C4: once a connection has closed and its handlers have finished, it has
\* run the teardown path exactly once if it was ever bound (one unbind, one
\* request to mark the user offline and, that request having resolved, one
\* offline broadcast), and no teardown step if it never was
C4_TeardownExactlyOnce ==
    \A c \in Conns :
        TornDown(c) =>
            LET n == IF EverBound(c) THEN 1 ELSE 0
            IN  /\ Cardinality(Unbinds(c)) = n
                /\ Cardinality(MarksOffline(c)) = n
                /\ Cardinality(BroadcastsOffline(c)) =
                      IF CloseSettledOk(c) \/ ~EverBound(c) THEN n ELSE 0

\* no two entries of the Registry have the same identity
UniqueKeys(m) == \A i, j \in DOMAIN m : m[i].id = m[j].id => i = j

\* the identities the current step binds to connection c
BindsNow(c) ==
    {e.id : e \in {NewEvents(c)[i] : i \in Where(NewEvents(c),
                       LAMBDA e : e.kind = "registry" /\ e.op = "set")}}

\* C6: after every step the Registry holds at most one handle per identity,
\* and a bind of an identity (also one that is bound already) leaves the
\* lookup of that identity at the binding connection
C6_OneHandleLastBindWins ==
    [][/\ UniqueKeys(connections')
       /\ \A c \in Conns : \A x \in BindsNow(c) : MapGet(connections', x) = c]_vars

\* C6 witness: both connections have bound "a", and the Registry holds it
C6_Witness ==
    /\ \A c \in Conns :
          Where(log[c], LAMBDA e : e.kind = "registry" /\ e.op = "set"
                                   /\ e.id = "a") # {}
    /\ lookup("a") # Undefined

\* the user_status(uid, offline) frames the current step of c writes to x
OfflineNow(c, x, uid) ==
    Where(NewEvents(c), LAMBDA e : IsStatus(e, x, uid, "offline"))

CloseEvent(c) == log[c][CHOOSE i \in DOMAIN log[c] : log[c][i].kind = "close"]

Recipients(x, uid) ==
    {i \in DOMAIN connections :
        /\ connections[i].id # uid
        /\ connections[i].ws = x
        /\ readyState[x] = "OPEN"}

StoreResolvedNow(c) ==
    Where(NewEvents(c), LAMBDA e : e.kind = "store" /\ e.phase = "ok") # {}

IsNewMessage(e) == e.kind = "send" /\ e.frame.type = "new_message"

IsStore(e, op, phase) == e.kind = "store" /\ e.op = op /\ e.phase = phase

\* C2: a new_message is written only after createMessage has resolved for
\* the frame that caused it, with the record that is now in the store; and a
\* frame whose createMessage rejected causes no new_message at all
C2_PersistBeforeFanOut ==
    \A c \in Conns : \A j \in DOMAIN log[c] :
        /\ IsNewMessage(log[c][j]) =>
              /\ \E i \in 1..(j - 1) :
                    /\ IsStore(log[c][i], "createMessage", "ok")
                    /\ log[c][i].cause = log[c][j].cause
              /\ \E r \in DOMAIN dbMessages :
                    /\ dbMessages[r].id = log[c][j].frame.message.id
                    /\ dbMessages[r].content = log[c][j].frame.message.content
        /\ IsStore(log[c][j], "createMessage", "fail") =>
              \A i \in DOMAIN log[c] :
                  IsNewMessage(log[c][i]) => log[c][i].cause # log[c][j].cause

\* C2 witness: a new_message has been written to a connection
C2_Witness ==
    \E c \in Conns : Where(log[c], IsNewMessage) # {}

\* the step runs the fan-out of a message frame received on connection c
FanOutStep(c, h) ==
    /\ h \in inflight
    /\ h \notin inflight'
    /\ h.conn = c
    /\ h.msg.type = "message"
    /\ h.pc = "getUserById"
    /\ Where(NewEvents(c), LAMBDA e : IsStore(e, "getUserById", "ok")) # {}

\* the new_message frames the current step of c writes to x for handler h
NewMessagesNow(c, x, h) ==
    Where(NewEvents(c),
          LAMBDA e : /\ IsNewMessage(e)
                     /\ e.to = x
                     /\ e.frame.message.content = h.msg.content
                     /\ e.frame.message.senderId = h.msg.senderId
                     /\ e.frame.message.sender_username = Usernames[h.msg.senderId])

\* A and B are bound on two open connections, and the frame of h was sent by
\* A, on A's connection, to the conversation of A and B
ScenarioAB(h, A, B) ==
    /\ A # B
    /\ h.msg.senderId = A
    /\ lookup(A) = h.conn
    /\ lookup(B) \notin {Undefined, h.conn}
    /\ readyState[lookup(A)] = "OPEN"
    /\ readyState[lookup(B)] = "OPEN"
    /\ getConversationParticipants(h.msg.conversationId) \in {<<A, B>>, <<B, A>>}

\* C3 as stated: in that scenario the fan-out writes exactly one new_message
\* (content, A's username) to B's connection and none to A's own connection
C3_Original ==
    [][\A c \in Conns : \A h \in inflight : \A A, B \in UserIds :
          (FanOutStep(c, h) /\ ScenarioAB(h, A, B)) =>
              /\ Cardinality(NewMessagesNow(c, lookup(B), h)) = 1
              /\ \A i \in DOMAIN NewEvents(c) :
                    IsNewMessage(NewEvents(c)[i]) => NewEvents(c)[i].to # c]_vars

\* C3 amended: in that scenario the fan-out writes exactly one new_message
\* (content, A's username) to B's connection and exactly one to A's own
\* connection, and no other new_message
C3_FanOutIncludesSender ==
    [][\A c \in Conns : \A h \in inflight : \A A, B \in UserIds :
          (FanOutStep(c, h) /\ ScenarioAB(h, A, B)) =>
              /\ Cardinality(NewMessagesNow(c, lookup(B), h)) = 1
              /\ Cardinality(NewMessagesNow(c, c, h)) = 1
              /\ Cardinality(Where(NewEvents(c), IsNewMessage)) = 2]_vars

\* C3 witness: a message frame that "a" sent on c1 has been fanned out to c2
\* while "a" is registered at c1 and "b" at c2
C3_Witness ==
    /\ lookup("a") = "c1"
    /\ lookup("b") = "c2"
    /\ \E i \in DOMAIN log["c1"] :
          /\ IsNewMessage(log["c1"][i])
          /\ log["c1"][i].to = "c2"
          /\ log["c1"][i].frame.message.senderId = "a"

\* an effect of a frame: a frame written to a socket or a store call issued
IsEffect(e) ==
    /\ e.cause.seq > 0
    /\ \/ e.kind = "send"
       \/ e.kind = "store" /\ e.phase = "call"

\* C5: on one connection, no outbound frame or store call caused by a frame
\* comes after an outbound frame or store call caused by a later frame
C5_ReceiptOrder ==
    \A c \in Conns : \A i, j \in DOMAIN log[c] :
        (i < j /\ IsEffect(log[c][i]) /\ IsEffect(log[c][j]))
            => log[c][i].cause.seq <= log[c][j].cause.seq

\* the step receives a frame on connection c
Received(c) == recvCount'[c] = recvCount[c] + 1

\* the wire data of the frame the step receives on c
DataNow(c) == NewEvents(c)[1].data

\* the step receives on c a well-formed frame whose type is in T
ReceivedType(c, T) ==
    /\ Received(c)
    /\ ~JSONParse(DataNow(c)).threw
    /\ JSONParse(DataNow(c)).value.type \in T

\* what the handler did in the step, past the receipt itself
Effects(c) == Tail(NewEvents(c))

OthersQuiet(c) == \A x \in Conns \ {c} : log'[x] = log[x]

\* no open handle is registered under identity x
Unreachable(x) ==
    \/ lookup(x) = Undefined
    \/ readyState[lookup(x)] # "OPEN"

\* C7: a call_offer whose target has no Registry entry causes exactly one
\* frame, a call_error "User is offline" on the sender's own connection
C7_OfferToAbsentTarget ==
    [][\A c \in Conns :
          (/\ ReceivedType(c, {"call_offer"})
           /\ lookup(JSONParse(DataNow(c)).value.targetUserId) = Undefined)
              => /\ Effects(c) =
                      <<SendEv(c, [type |-> "call_error",
                                   error |-> "User is offline"],
                               Cause(c, recvCount'[c]))>>
                 /\ OthersQuiet(c)]_vars

NoBindLogged ==
    \A c \in Conns : Where(log[c], LAMBDA e : e.kind = "registry") = {}

\* C7 witness: with no identity ever bound, a call_offer was answered with
\* a call_error
C7_Witness ==
    /\ NoBindLogged
    /\ \E c \in Conns : \E i \in DOMAIN log[c] :
          /\ log[c][i].kind = "send"
          /\ log[c][i].to = c
          /\ log[c][i].frame.type = "call_error"

\* the identity that a signaling frame other than call_offer is routed by
TargetOf(m) ==
    IF m.type \in {"call_answer", "call_reject"} THEN m.callerId
    ELSE m.targetUserId

\* C8: a call_answer, ice_candidate, call_end or call_reject whose target is
\* unreachable causes no outbound frame at all
C8_SilentDrop ==
    [][\A c \in Conns :
          (/\ ReceivedType(c, {"call_answer", "ice_candidate", "call_end",
                               "call_reject"})
           /\ Unreachable(TargetOf(JSONParse(DataNow(c)).value)))
              => /\ Effects(c) = <<>>
                 /\ OthersQuiet(c)]_vars

\* C8 witness: with no identity ever bound, a connection has received each
\* of two such frames and nothing has been written for them
C8_Witness ==
    /\ NoBindLogged
    /\ \E c \in Conns :
          /\ Len(log[c]) = 2
          /\ \A i \in DOMAIN log[c] :
                /\ log[c][i].kind = "recv"
                /\ log[c][i].data.json
                /\ log[c][i].data.value.type \in
                      {"call_answer", "ice_candidate", "call_end", "call_reject"}

\* C9: an unparseable frame causes exactly one frame, an error frame on the
\* connection it came from, and leaves the Registry as it was
C9_MalformedFrame ==
    [][\A c \in Conns :
          (Received(c) /\ JSONParse(DataNow(c)).threw)
              => /\ Len(Effects(c)) = 1
                 /\ Effects(c)[1].kind = "send"
                 /\ Effects(c)[1].to = c
                 /\ Effects(c)[1].frame.type = "error"
                 /\ OthersQuiet(c)
                 /\ connections' = connections]_vars

\* C9 witness: a bound connection sent an unparseable frame and was answered
\* with an error frame; its Registry entry is in place
C9_Witness ==
    \E c \in Conns :
        /\ lookup("a") = c
        /\ \E i \in DOMAIN log[c] :
              /\ log[c][i].kind = "recv"
              /\ ~log[c][i].data.json
              /\ i < Len(log[c])
              /\ log[c][i + 1].kind = "send"
              /\ log[c][i + 1].frame = ErrorFrame("SyntaxError")

\* the step settles a createMessage call of connection c with a rejection
CreateFailedNow(c) ==
    Where(NewEvents(c), LAMBDA e : IsStore(e, "createMessage", "fail")) # {}

\* C11: when createMessage rejects for a message frame, the handler writes
\* exactly one frame, an error frame on the sender's connection (which gets
\* it if its socket is still open), writes nothing to any other connection,
\* stores nothing, issues no further store call and ends: no fan-out follows
C11_CreateFailureReported ==
    [][\A c \in Conns :
          CreateFailedNow(c) =>
              /\ Len(NewEvents(c)) = 2
              /\ NewEvents(c)[2].kind =
                    (IF readyState[c] = "OPEN" THEN "send" ELSE "drop")
              /\ NewEvents(c)[2].to = c
              /\ NewEvents(c)[2].frame.type = "error"
              /\ NewEvents(c)[2].cause = NewEvents(c)[1].cause
              /\ OthersQuiet(c)
              /\ dbMessages' = dbMessages
              /\ \A h \in inflight' :
                    Cause(h.conn, h.seq) # NewEvents(c)[1].cause]_vars

\* C11 witness: a createMessage call of c1 was rejected and c1, still open,
\* was sent the error frame, while c2 is registered and open
C11_Witness ==
    /\ readyState = [c \in Conns |-> "OPEN"]
    /\ lookup("b") = "c2"
    /\ \E i \in DOMAIN log["c1"] :
          /\ IsStore(log["c1"][i], "createMessage", "fail")
          /\ i < Len(log["c1"])
          /\ log["c1"][i + 1].kind = "send"
          /\ log["c1"][i + 1].to = "c1"
          /\ log["c1"][i + 1].frame = ErrorFrame("StoreError")

\* the event is the write of an auth_success frame (delivered or not)
IsAck(e) ==
    /\ e.kind \in {"send", "drop"}
    /\ e.frame.type = "auth_success"

\* the identity declared by the frame that caused event e of connection c
DeclaredBy(c, e) ==
    LET r == CHOOSE i \in DOMAIN log[c] :
                 log[c][i].kind = "recv" /\ log[c][i].cause = e.cause
    IN  log[c][r].data.value.userId

\* C12: every auth_success written for an auth frame declaring identity X
\* comes, in this order, after the bind of X to the connection, the request
\* to mark X online, the success of that request and the broadcast of
\* (X, online), all of the same frame, on the connection of the frame
C12_AuthOrder ==
    \A c \in Conns : \A j \in DOMAIN log[c] :
        IsAck(log[c][j]) =>
            LET k == log[c][j].cause
                X == DeclaredBy(c, log[c][j])
            IN  /\ log[c][j].to = c
                /\ \E i1, i2, i3, i4 \in 1..(j - 1) :
                      /\ i1 < i2 /\ i2 < i3 /\ i3 < i4
                      /\ log[c][i1] = RegEv("set", X, c, k)
                      /\ log[c][i2] =
                            StoreEv("updateUserStatus", "call", <<X, "online">>, k)
                      /\ log[c][i3] =
                            StoreEv("updateUserStatus", "ok", <<X, "online">>, k)
                      /\ log[c][i4].kind = "broadcast"
                      /\ log[c][i4].cause = k
                      /\ log[c][i4].status = "online"
                      /\ log[c][i4].userId = X

\* the broadcasts the current step of c runs
BroadcastsNow(c) ==
    {NewEvents(c)[i] : i \in Where(NewEvents(c), LAMBDA e : e.kind = "broadcast")}

\* the user_status frames the current step of c writes to x
StatusNow(c, x) ==
    Where(NewEvents(c),
          LAMBDA e : e.kind = "send" /\ e.to = x /\ e.frame.type = "user_status")

\* C13: a presence broadcast about identity X writes, to each connection, one
\* user_status(X, status) per Registry entry that maps to it under another
\* identity than X with an open handle, and nothing for the entry of X
\* itself: a connection registered only as X is written nothing
C13_BroadcastToOthers ==
    [][\A c \in Conns : \A b \in BroadcastsNow(c) : \A x \in Conns :
          /\ Cardinality(StatusNow(c, x)) = Cardinality(Recipients(x, b.userId))
          /\ \A i \in StatusNow(c, x) :
                IsStatus(NewEvents(c)[i], x, b.userId, b.status)
          /\ (\A i \in DOMAIN connections :
                  connections[i].ws = x => connections[i].id = b.userId)
                => StatusNow(c, x) = {}]_vars

\* C13 witness: a broadcast about a third identity has written to c1 and to
\* c2, which are registered as "a" and as "b", and to nobody as the subject
C13_Witness ==
    /\ lookup("a") = "c1"
    /\ lookup("b") = "c2"
    /\ lookup("") # Undefined
    /\ \E c \in Conns : \E i \in DOMAIN log[c] :
          /\ log[c][i].kind = "broadcast"
          /\ log[c][i].userId = ""
          /\ i + 2 <= Len(log[c])
          /\ IsStatus(log[c][i + 1], "c1", "", "online")
          /\ IsStatus(log[c][i + 2], "c2", "", "online")

\* the connections a broadcast about X addresses
BroadcastPeers(X) ==
    {connections[i].ws : i \in {j \in DOMAIN connections : connections[j].id # X}}

\* the connections the fan-out of handler h addresses
FanOutPeers(h) ==
    {lookup(h.local[2][i]) : i \in DOMAIN h.local[2]} \ {Undefined}

\* the peers of S a write cannot reach: their socket is not open
DownPeers(S) == {x \in S : readyState[x] # "OPEN"}

\* the current step of c writes a frame of type t to x
Delivered(c, x, t) ==
    Where(NewEvents(c),
          LAMBDA e : e.kind = "send" /\ e.to = x /\ e.frame.type = t) # {}

\* the current step of c writes no error frame
NoErrorNow(c) ==
    Where(NewEvents(c),
          LAMBDA e : e.kind \in {"send", "drop"} /\ e.frame.type = "error") = {}

\* C14: when a presence broadcast, or the fan-out of a message whose sender
\* the store knows, addresses a peer that cannot be written to, every other
\* peer it addresses is still written the frame, and the step writes no
\* error frame
C14_WriteFailureIsolated ==
    [][\A c \in Conns :
          /\ \A b \in BroadcastsNow(c) :
                DownPeers(BroadcastPeers(b.userId)) # {} =>
                    /\ \A x \in BroadcastPeers(b.userId) :
                          readyState[x] = "OPEN" => Delivered(c, x, "user_status")
                    /\ NoErrorNow(c)
          /\ \A h \in inflight :
                (/\ FanOutStep(c, h)
                 /\ getUserById(h.msg.senderId).found
                 /\ DownPeers(FanOutPeers(h)) # {}) =>
                    /\ \A x \in FanOutPeers(h) :
                          readyState[x] = "OPEN" => Delivered(c, x, "new_message")
                    /\ NoErrorNow(c)]_vars

\* C14 witness: c1 stayed registered as "a" and went down; a message frame
\* of c2 was fanned out past it to c2, and no error frame was written
C14_Witness ==
    /\ NoBindLogged
    /\ readyState["c1"] # "OPEN"
    /\ lookup("a") = "c1"
    /\ \E i \in DOMAIN log["c2"] :
          /\ IsStore(log["c2"][i], "getUserById", "ok")
          /\ i < Len(log["c2"])
          /\ IsNewMessage(log["c2"][i + 1])
          /\ log["c2"][i + 1].to = "c2"
          /\ log["c2"][i + 1].cause = log["c2"][i].cause
          /\ \A j \in DOMAIN log["c2"] :
                (log["c2"][j].kind \in {"send", "drop"}
                    /\ log["c2"][j].cause = log["c2"][i].cause)
                    => j = i + 1

\* the step runs the fan-out of a typing frame received on connection c
TypingStep(c, h) ==
    /\ h \in inflight
    /\ h \notin inflight'
    /\ h.conn = c
    /\ h.msg.type = "typing"
    /\ Where(NewEvents(c),
             LAMBDA e : IsStore(e, "getConversationParticipants", "ok")) # {}

\* the typing frames the current step of c writes to x
TypingNow(c, x) ==
    Where(NewEvents(c),
          LAMBDA e : e.kind = "send" /\ e.to = x /\ e.frame.type = "typing")

\* the participants of the frame of h, other than its userId, that are
\* registered at connection x with an open handle
TypingTargets(h, x) ==
    LET parts == getConversationParticipants(h.msg.conversationId)
    IN  {i \in DOMAIN parts :
            /\ parts[i] # h.msg.userId
            /\ lookup(parts[i]) = x
            /\ readyState[x] = "OPEN"}

\* C15: the fan-out of a typing frame writes one typing frame for every
\* participant whose identity differs from the frame's userId and who is
\* registered with an open handle, and writes none to the connection that is
\* registered under the frame's userId
C15_TypingToOthers ==
    [][\A c \in Conns : \A h \in inflight :
          TypingStep(c, h) =>
              /\ \A x \in Conns :
                    Cardinality(TypingNow(c, x)) = Cardinality(TypingTargets(h, x))
              /\ lookup(h.msg.userId) # Undefined
                    => TypingNow(c, lookup(h.msg.userId)) = {}]_vars

\* the kind of event that caused e: 'close', or the type of the frame
TypeOfCause(lg, e) ==
    IF e.cause.seq = 0 THEN "close"
    ELSE LET r == CHOOSE i \in DOMAIN lg :
                      lg[i].kind = "recv" /\ lg[i].cause = e.cause
         IN  IF lg[r].data.json THEN lg[r].data.value.type ELSE "unparseable"

\* the store operations that write
WriteOps == {"createMessage", "updateUserStatus"}

IsPresenceFrame(e) ==
    e.kind = "send" /\ e.frame.type \in {"typing", "user_status"}

EntriesOf(x) == {i \in DOMAIN connections : connections[i].ws = x}

C17_UnknownTypeIgnored ==
    [][\A c \in Conns :
          (/\ Received(c)
           /\ ~JSONParse(DataNow(c)).threw
           /\ JSONParse(DataNow(c)).value.type \notin KnownTypes)
              => /\ Effects(c) = <<>>
                 /\ OthersQuiet(c)
                 /\ inflight' = inflight
                 /\ connections' = connections
                 /\ dbStatus' = dbStatus
                 /\ dbMessages' = dbMessages]_vars

\* C17 witness: a bound connection has sent two frames of an unknown type;
\* they are all its log holds, and the Registry still has its entry
C17_Witness ==
    \E c \in Conns :
        /\ lookup(userId[c]) = c
        /\ Len(log[c]) = 2
        /\ \A i \in DOMAIN log[c] :
              /\ log[c][i].kind = "recv"
              /\ log[c][i].data.json
              /\ log[c][i].data.value.type \notin KnownTypes

\* the current step of c ends in the catch block: it writes an error frame
RaisedNow(c) == ~NoErrorNow(c)

SignalTypes ==
    {"call_offer", "call_answer", "ice_candidate", "call_end", "call_reject"}

\* the frame a signaling frame m is to be forwarded as
ForwardOf(m) ==
    CASE m.type = "call_offer" ->
            [type |-> "call_offer", offer |-> m.offer, callerId |-> m.callerId,
             callerName |-> m.callerName, conversationId |-> m.conversationId,
             isVideo |-> m.isVideo]
      [] m.type = "call_answer" ->
            [type |-> "call_answer", answer |-> m.answer,
             answererId |-> m.answererId]
      [] m.type = "ice_candidate" ->
            [type |-> "ice_candidate", candidate |-> m.candidate,
             fromUserId |-> m.fromUserId]
      [] m.type = "call_end" ->
            [type |-> "call_ended", fromUserId |-> m.fromUserId]
      [] m.type = "call_reject" ->
            [type |-> "call_rejected", rejecterId |-> m.rejecterId]

\* C19: a signaling frame whose target identity is registered with an open
\* handle causes exactly one frame, of the mapped kind and with the payload
\* of the inbound frame, written to the connection registered for the
\* target; nothing else is written, to the sender or to anyone
C19_SignalForwardedToTarget ==
    [][\A c \in Conns :
          (/\ ReceivedType(c, SignalTypes)
           /\ ~Unreachable(TargetOf(JSONParse(DataNow(c)).value)))
              => LET m == JSONParse(DataNow(c)).value
                 IN  /\ Effects(c) =
                           <<SendEv(lookup(TargetOf(m)), ForwardOf(m),
                                    Cause(c, recvCount'[c]))>>
                     /\ OthersQuiet(c)]_vars

\* C19 witness: c1 is registered as "a"; c2 sent a call_end and a
\* call_reject for "a", and c1 was written call_ended and call_rejected
C19_Witness ==
    /\ lookup("a") = "c1"
    /\ Len(log["c2"]) = 4
    /\ log["c2"][1].kind = "recv"
    /\ log["c2"][2].kind = "send"
    /\ log["c2"][2].to = "c1"
    /\ log["c2"][3].kind = "recv"
    /\ log["c2"][4].kind = "send"
    /\ log["c2"][4].to = "c1"
    /\ {log["c2"][2].frame.type, log["c2"][4].frame.type} =
          {"call_ended", "call_rejected"}

\* the frame types other than auth that have a case in the switch
RelayTypes == {"message", "typing"} \cup SignalTypes

\* the current step of c belongs to the handler of a frame of a type in T
\* (or, for "close", to the close handler)
HandlesNow(c, T) ==
    /\ NewEvents(c) # <<>>
    /\ \A i \in DOMAIN NewEvents(c) :
          TypeOfCause(log'[c], NewEvents(c)[i]) \in T

\* C20: no step of the handler of a message, typing or signaling frame,
\* whether it goes through or ends in the catch block, changes the Registry;
\* every step that changes it is a bind by an auth frame or the unbind of a
\* close
C20_OnlyBindUnbindWrite ==
    [][/\ \A c \in Conns :
             HandlesNow(c, RelayTypes) => connections' = connections
       /\ connections' # connections =>
             \E c \in Conns :
                 /\ HandlesNow(c, {"auth", "close"})
                 /\ Where(NewEvents(c), LAMBDA e : e.kind = "registry") # {}]_vars

\* C20 witness: with "a" registered, a message frame has been stored and
\* fanned out and another handler has ended in the catch block; the Registry
\* holds the entry of "a" as the bind left it
C20_Witness ==
    /\ connections = <<[id |-> "a", ws |-> "c1"]>>
    /\ \E c \in Conns : Where(log[c], IsNewMessage) # {}
    /\ \E c \in Conns :
          Where(log[c], LAMBDA e : e.kind = "send" /\ e.frame.type = "error") # {}

\* the frame that caused event e of connection c, as parsed
FrameOf(lg, e) ==
    LET r == CHOOSE i \in DOMAIN lg :
                 lg[i].kind = "recv" /\ lg[i].cause = e.cause
    IN  JSONParse(lg[r].data).value

\* the frame f, written for the inbound frame m, names as its origin the
\* identity that m declares
ActsAsDeclared(f, m) ==
    CASE f.type = "new_message" ->
            /\ f.message.senderId = m.senderId
            /\ f.message.sender_username = Usernames[m.senderId]
      [] f.type = "typing" -> f.userId = m.userId
      [] f.type = "call_offer" -> f.callerId = m.callerId
      [] f.type = "call_answer" -> f.answererId = m.answererId
      [] f.type = "ice_candidate" -> f.fromUserId = m.fromUserId
      [] f.type = "call_ended" -> f.fromUserId = m.fromUserId
      [] f.type = "call_rejected" -> f.rejecterId = m.rejecterId
      [] OTHER -> TRUE

\* C21: the handler of a message, typing or signaling frame runs the same on
\* a connection that is unbound, bound, or bound to another identity than
\* the frame declares: it does not bind the connection, and every frame it
\* writes names the identity the inbound frame declares as its origin
C21_ActsUnderDeclaredIdentity ==
    [][\A c \in Conns :
          HandlesNow(c, RelayTypes) =>
              /\ userId' = userId
              /\ \A i \in DOMAIN NewEvents(c) :
                    NewEvents(c)[i].kind = "send" =>
                        ActsAsDeclared(NewEvents(c)[i].frame,
                                       FrameOf(log'[c], NewEvents(c)[i]))]_vars

\* C21 witness: c2 never authenticated; the message frame it sent as "b" was
\* stored and c1, registered as "a", was written it with b's username
C21_Witness ==
    /\ userId["c2"] = Null
    /\ lookup("a") = "c1"
    /\ \E i \in DOMAIN log["c2"] :
          /\ IsNewMessage(log["c2"][i])
          /\ log["c2"][i].to = "c1"
          /\ log["c2"][i].frame.message.senderId = "b"
          /\ log["c2"][i].frame.message.sender_username = "bob"

\* the frame types the relay writes to a connection it finds in the Registry
RelayedTypes ==
    {"new_message", "typing", "user_status", "call_offer", "call_answer",
     "ice_candidate", "call_ended", "call_rejected"}

\* the frames of type t the current step of c writes to x
WrittenNow(c, x, t) ==
    Where(NewEvents(c),
          LAMBDA e : e.kind = "send" /\ e.to = x /\ e.frame.type = t)

\* how many members of the sequence of identities ids, other than but, the
\* Registry maps to connection x
MappedTo(ids, but, x) ==
    Cardinality({i \in DOMAIN ids : ids[i] # but /\ lookup(ids[i]) = x})

\* C22: a bind of an identity that another connection holds leaves every
\* socket as open as it was and moves the lookup of the identity to the
\* binding connection; and every relayed frame is written to the connection
\* that the Registry then maps an identity it is addressed to (the target of
\* a signaling frame, a participant, an entry other than the subject of a
\* broadcast), so the previous connection of a re-bound identity is written
\* nothing on behalf of that identity, and nothing at all unless another
\* entry maps to it
C22_SupersededUnreachable ==
    [][\A c \in Conns :
          /\ \A X \in BindsNow(c) :
                /\ readyState' = readyState
                /\ MapGet(connections', X) = c
          /\ \A x \in Conns :
                /\ HandlesNow(c, SignalTypes) =>
                      \A t \in RelayedTypes :
                          WrittenNow(c, x, t) # {} =>
                              x = lookup(TargetOf(JSONParse(DataNow(c)).value))
                /\ \A h \in inflight :
                      /\ FanOutStep(c, h) =>
                            Cardinality(WrittenNow(c, x, "new_message"))
                                <= MappedTo(h.local[2], Undefined, x)
                      /\ TypingStep(c, h) =>
                            Cardinality(WrittenNow(c, x, "typing"))
                                <= MappedTo(getConversationParticipants(
                                                h.msg.conversationId),
                                            h.msg.userId, x)
                /\ \A b \in BroadcastsNow(c) :
                      Cardinality(WrittenNow(c, x, "user_status"))
                          <= Cardinality({i \in EntriesOf(x) :
                                             connections[i].id # b.userId})
                /\ EntriesOf(x) = {} =>
                      \A t \in RelayedTypes : WrittenNow(c, x, t) = {}]_vars

\* C22 witness: c2 has bound "a", which c1 held; c1 is still open and no
\* entry maps to it; a signaling frame for "a" sent afterwards was written
\* to c2, and c1 has been written nothing
C22_Witness ==
    /\ readyState["c1"] = "OPEN"
    /\ userId["c1"] = "a"
    /\ lookup("a") = "c2"
    /\ EntriesOf("c1") = {}
    /\ \E i \in DOMAIN log["c1"] :
          /\ log["c1"][i].kind = "send"
          /\ log["c1"][i].to = "c2"
          /\ log["c1"][i].frame.type = "call_ended"
          /\ FrameOf(log["c1"], log["c1"][i]).targetUserId = "a"
    /\ \A c \in Conns : \A i \in DOMAIN log[c] :
          log[c][i].kind = "send" => log[c][i].to # "c1"

\* C23: once a connection has closed and its handlers have finished, no
\* Registry entry maps to it, whatever auth frames it sent before
C23_NoEntryAfterClose ==
    \A c \in Conns : TornDown(c) => EntriesOf(c) = {}

\* C24: when no handler is in flight and no store call has been rejected,
\* the store has a user as online exactly if the Registry holds an entry for
\* the user's identity
C24_StatusMatchesRegistry ==
    (inflight = {} /\ Failures = 0) =>
        \A u \in UserIds : (dbStatus[u] = "online") <=> (lookup(u) # Undefined)

\* the step ends the handler h of a message frame of connection c on a failed
\* lookup: the participants query or getUserById rejects, or getUserById
\* resolves with no user
LookupFailsStep(c, h) ==
    /\ h \in inflight
    /\ h \notin inflight'
    /\ h.conn = c
    /\ h.msg.type = "message"
    /\ \/ /\ h.pc = "getConversationParticipants"
          /\ Where(NewEvents(c),
                   LAMBDA e : IsStore(e, "getConversationParticipants", "fail")) # {}
       \/ /\ h.pc = "getUserById"
          /\ Where(NewEvents(c), LAMBDA e : IsStore(e, "getUserById", "fail")) # {}
       \/ /\ FanOutStep(c, h)
          /\ ~getUserById(h.msg.senderId).found

\* the error frames the current step writes on the socket of c
ErrorsNow(c) ==
    Where(NewEvents(c),
          LAMBDA e : e.kind \in {"send", "drop"} /\ e.frame.type = "error")

\* the record createMessage resolved with for h is in the store after the step
Persisted(h) ==
    /\ h.local[1].id \in DOMAIN dbMessages'
    /\ dbMessages'[h.local[1].id] = h.local[1]

\* the step writes no new_message frame to anyone
NoNewMessageNow ==
    \A x \in Conns :
        Where(NewEvents(x),
              LAMBDA e : e.kind \in {"send", "drop"}
                            /\ e.frame.type = "new_message") = {}

\* C25: whenever a lookup fails after createMessage succeeded (the
\* participants query or getUserById rejects, or getUserById finds no user),
\* the message stays stored, nobody is written a new_message and exactly one
\* error frame is written, on the sender's connection
C25_LookupFailureReported ==
    [][\A c \in Conns : \A h \in inflight :
          LookupFailsStep(c, h) =>
              /\ Persisted(h)
              /\ NoNewMessageNow
              /\ OthersQuiet(c)
              /\ Cardinality(ErrorsNow(c)) = 1]_vars

\* the identities getConversationParticipants returns for the frame of h
ParticipantsOf(h) ==
    {getConversationParticipants(h.msg.conversationId)[i] :
        i \in DOMAIN getConversationParticipants(h.msg.conversationId)}

\* C26: the fan-out of a message frame writes new_message only to a
\* connection that the Registry holds, at that moment, under an identity the
\* participants query returned for the conversation of the frame, and to no
\* connection that is bound to an identity outside that set
C26_OnlyParticipantsReceive ==
    [][\A c \in Conns : \A h \in inflight : \A x \in Conns :
          (FanOutStep(c, h) /\ Where(NewEvents(c),
                                     LAMBDA e : e.kind \in {"send", "drop"}
                                         /\ e.frame.type = "new_message"
                                         /\ e.to = x) # {}) =>
              /\ \E p \in ParticipantsOf(h) : lookup(p) = x
              /\ {connections[i].id : i \in EntriesOf(x)} \subseteq ParticipantsOf(h)
              /\ userId[x] \in ParticipantsOf(h)]_vars

\* the step settles the updateUserStatus call of an auth frame of c with a
\* rejection
AuthFailedNow(c) ==
    Where(NewEvents(c),
          LAMBDA e : IsStore(e, "updateUserStatus", "fail")
                        /\ e.arg[2] = "online") # {}

\* an auth frame of c has had its updateUserStatus call rejected
AuthFailed(c) ==
    Where(log[c],
          LAMBDA e : IsStore(e, "updateUserStatus", "fail")
                        /\ e.arg[2] = "online") # {}

\* the step runs the first part of the teardown of c: the unbind and the
\* request to mark the user offline
TeardownNow(c) ==
    /\ Where(NewEvents(c),
             LAMBDA e : e.kind = "registry" /\ e.op = "delete") # {}
    /\ Where(NewEvents(c),
             LAMBDA e : IsStore(e, "updateUserStatus", "call")
                           /\ e.arg[2] = "offline") # {}

\* C27: when updateUserStatus rejects for an auth frame, the step writes one
\* frame, an error frame on the connection of the frame, no auth_success and
\* no user_status, runs no broadcast and leaves the Registry as it is; and
\* the close of a connection that had an auth frame fail runs the teardown
C27_AuthFailureKeepsBind ==
    [][\A c \in Conns :
          /\ AuthFailedNow(c) =>
                /\ Len(NewEvents(c)) = 2
                /\ NewEvents(c)[2].kind \in {"send", "drop"}
                /\ NewEvents(c)[2].to = c
                /\ NewEvents(c)[2].frame.type = "error"
                /\ OthersQuiet(c)
                /\ connections' = connections
          /\ (CloseStep(c) /\ AuthFailed(c)) => TeardownNow(c)]_vars

\* C28: every frame of a relayed type (new_message, typing, user_status and
\* the five signaling forwards) is written to a handle the Registry holds and
\* that is open when it is written; and a call_offer whose target has a
\* Registry entry with a handle that is not open is answered like one whose
\* target has no entry, with one call_error to the sender and nothing else
C28_RelayOnlyToOpen ==
    [][\A c \in Conns :
          /\ \A i \in DOMAIN NewEvents(c) :
                (/\ NewEvents(c)[i].kind \in {"send", "drop"}
                 /\ NewEvents(c)[i].frame.type \in RelayedTypes)
                    => /\ NewEvents(c)[i].kind = "send"
                       /\ readyState[NewEvents(c)[i].to] = "OPEN"
                       /\ EntriesOf(NewEvents(c)[i].to) # {}
          /\ (/\ ReceivedType(c, {"call_offer"})
              /\ lookup(JSONParse(DataNow(c)).value.targetUserId) # Undefined
              /\ readyState[lookup(JSONParse(DataNow(c)).value.targetUserId)]
                    # "OPEN")
                 => /\ Effects(c) =
                         <<SendEv(c, [type |-> "call_error",
                                      error |-> "User is offline"],
                                  Cause(c, recvCount'[c]))>>
                    /\ OthersQuiet(c)]_vars

\* C28 witness: c1 is still registered as "a", as it has been throughout, but
\* its socket is no longer open; c2 sent a call_offer for "a" and was
\* answered with call_error, and nothing was written to c1
C28_Witness ==
    /\ NoBindLogged
    /\ lookup("a") = "c1"
    /\ readyState["c1"] # "OPEN"
    /\ \A c \in Conns : \A i \in DOMAIN log[c] :
          log[c][i].kind \in {"send", "drop"} => log[c][i].to # "c1"
    /\ \E i \in DOMAIN log["c2"] :
          /\ log["c2"][i].kind = "recv"
          /\ ~JSONParse(log["c2"][i].data).threw
          /\ JSONParse(log["c2"][i].data).value.type = "call_offer"
          /\ JSONParse(log["c2"][i].data).value.targetUserId = "a"
          /\ i < Len(log["c2"])
          /\ log["c2"][i + 1].kind = "send"
          /\ log["c2"][i + 1].to = "c2"
          /\ log["c2"][i + 1].frame.type = "call_error"

\* the handler of frame n of connection c (n = 0: its 'close' handler) has
\* started and awaits a store call
Pending(c, n) == \E h \in inflight : h.conn = c /\ h.seq = n

\* c was bound and its 'close' event has been emitted
ClosedBound(c) == readyState[c] = "CLOSED" /\ userId[c] # Null

\* C29: every handler that awaits a store call eventually finishes; and
\* every connection that closes while bound eventually has had its identity
\* removed from the Registry, its handlers finished and, if the offline
\* update succeeded, the offline broadcast run
C29_HandlersFinish ==
    /\ \A c \in Conns : \A n \in 0..MaxFrames :
          Pending(c, n) ~> ~Pending(c, n)
    /\ \A c \in Conns :
          ClosedBound(c) ~>
              (/\ Unbinds(c) # {}
               /\ lookup(userId[c]) # c
               /\ ~Pending(c, 0)
               /\ CloseSettledOk(c) => BroadcastsOffline(c) # {})

====
